---- MODULE Spec2Model ----
(***************************************************************************)
(* State-machine model of the CRUSH Clothing storefront:                   *)
(*   - the Config Provider        (src/server/routes.ts, registerRoutes)   *)
(*   - the Catalog Bootstrapper   (src/client/src/App.tsx, initializeAndLoad)*)
(*   - the Checkout Initiator     (src/client/src/App.tsx, startCheckout)  *)
(*   - the render function of AppContent (which buttons are on the page)   *)
(*   - formatPrice                                                         *)
(* JavaScript strings are sequences of one-character strings.  Every       *)
(* action is one run-to-completion step of the single-threaded event loop: *)
(* the code between two awaits, or one event handler.                      *)
(***************************************************************************)
EXTENDS Integers, Sequences, FiniteSets, TLC

\* ---------------------------------------------------------------- bounds
MaxProducts == 4      \* longest catalog the platform returns
MaxClicks == 2        \* button clicks / startCheckout invocations per page session
MaxQty == 2           \* largest quantity passed to startCheckout
MaxPriceLen == 4      \* longest amount string given to formatPrice

\* ---------------------------------------------------------------- strings
HTTPS == <<"h", "t", "t", "p", "s", ":", "/", "/">>
HTTP == <<"h", "t", "t", "p", ":", "/", "/">>
Host == <<"s", ".", "i", "o">>
Token == <<"t", "k">>
ApiVersion == <<"2", "0", "2", "4", "-", "0", "1">>

\* s.indexOf(pat) + 1, 0 when pat does not occur in s
IndexOf(s, pat) ==
    LET hits == {i \in 1..(Len(s) - Len(pat) + 1) : SubSeq(s, i, i + Len(pat) - 1) = pat}
    IN  IF hits = {} THEN 0 ELSE CHOOSE i \in hits : \A j \in hits : i <= j

\* String.prototype.replace(pat, rep) with a string pattern: the first
\* occurrence of pat, wherever it is, is replaced; no occurrence, no change.
Replace(s, pat, rep) ==
    LET i == IndexOf(s, pat)
    IN  IF i = 0 THEN s
        ELSE SubSeq(s, 1, i - 1) \o rep \o SubSeq(s, i + Len(pat), Len(s))

\* JavaScript truthiness of a string
Truthy(s) == s # <<>>

\* ---------------------------------------------------------------- state
VARIABLES
    env,            \* process.env of the server: the two variables, set or unset
    pc,             \* position of initializeAndLoad
    client,         \* the module-level `client` (App.tsx:8)
    clientWrites,   \* number of assignments to `client`
    products,       \* useState products
    featured,       \* useState featured
    loading,        \* useState loading
    configError,    \* useState configError
    configFetches,  \* number of GET /api/config/shopify requests sent
    fetchAllCalls,  \* number of client.product.fetchAll() calls
    fetched,        \* <<>> or <<raw records>>: what fetchAll resolved with
    thrown,         \* what the try block of initializeAndLoad threw ("none" if nothing)
    calls,          \* the startCheckout invocations, in invocation order
    sessions,       \* platform side: sessions[s] is the invocation that created session s
    href,           \* window.location.href: <<>> is the storefront page itself
    uncaught,       \* uncaught TypeErrors thrown by onClick handlers
    priceIn,        \* argument of formatPrice
    priceOut        \* <<>> before the call, <<result>> after it

pageVars == <<products, featured, loading, configError, client>>
bootVars == <<env, pc, clientWrites, configFetches, fetchAllCalls, fetched, thrown>>
checkoutVars == <<calls, sessions, href, uncaught>>
priceVars == <<priceIn, priceOut>>
vars == <<pageVars, bootVars, checkoutVars, priceVars>>

\* `null`
NULL == [null |-> TRUE]

\* ------------------------------------------------------- Config Provider
\* An environment variable is unset or holds a string.
EnvVar(isSet, val) == [isSet |-> isSet, val |-> val]
Unset == EnvVar(FALSE, <<>>)
DomainVars ==
    {Unset, EnvVar(TRUE, <<>>), EnvVar(TRUE, Host),
     EnvVar(TRUE, HTTPS \o Host), EnvVar(TRUE, HTTP \o Host)}
TokenVars == {Unset, EnvVar(TRUE, <<>>), EnvVar(TRUE, Token)}

\* process.env.X || ""
OrEmpty(v) == IF v.isSet /\ Truthy(v.val) THEN v.val ELSE <<>>

\* the JSON document of GET /api/config/shopify
ShopifyConfig(e) ==
    [domain |-> OrEmpty(e.SHOPIFY_STORE_DOMAIN),
     storefrontAccessToken |-> OrEmpty(e.SHOPIFY_STOREFRONT_ACCESS_TOKEN)]

\* ---------------------------------------------------- Catalog Bootstrapper
ConfigMissingBothOnly(config) ==
    ~Truthy(config.domain) /\ ~Truthy(config.storefrontAccessToken)

\* !config.domain || !config.storefrontAccessToken
ConfigMissing(config) ==
    ~Truthy(config.domain) \/ ~Truthy(config.storefrontAccessToken)

\* the argument of Client.buildClient; the platform client keeps it
BuildClient(config) ==
    [domain |-> Replace(config.domain, HTTPS, <<>>),
     storefrontAccessToken |-> config.storefrontAccessToken,
     apiVersion |-> ApiVersion]

\* ---- raw records of the platform and their display shape (App.tsx:15-28)
Opt(present, val) == [present |-> present, val |-> val]
Amount195 == <<"1", "9", ".", "5">>

RawVariant(id, amount) ==
    [id |-> id, title |-> "Default Title", price |-> [amount |-> amount],
     available |-> TRUE]

\* a record with one image and one variant
Hoodie ==
    [id |-> 1, title |-> "Hoodie", description |-> "Heavy hoodie", handle |-> "hoodie",
     vendor |-> "CRUSH",
     images |-> Opt(TRUE, <<[src |-> "hoodie.png", altText |-> "front"]>>),
     variants |-> Opt(TRUE, <<RawVariant(11, Amount195)>>)]

\* a record with no image and no variant
Sticker ==
    [id |-> 2, title |-> "Sticker", description |-> "", handle |-> "sticker",
     vendor |-> "CRUSH",
     images |-> Opt(TRUE, <<>>),
     variants |-> Opt(TRUE, <<>>)]

\* a malformed record: `images` is undefined
Broken ==
    [id |-> 3, title |-> "Broken", description |-> "", handle |-> "broken",
     vendor |-> "CRUSH",
     images |-> Opt(FALSE, <<>>),
     variants |-> Opt(TRUE, <<>>)]

RawProducts == {Hoodie, Sticker, Broken}
Catalogs == UNION {[1..n -> RawProducts] : n \in 0..MaxProducts}

\* p.images.map(...) or p.variants.map(...) on undefined: a TypeError
MapThrows(prods) ==
    \E i \in 1..Len(prods) : ~prods[i].images.present \/ ~prods[i].variants.present

\* the arrow function of prods.map (App.tsx:59-70)
MapProduct(p) ==
    [id |-> p.id, title |-> p.title, description |-> p.description, handle |-> p.handle,
     images |-> [i \in 1..Len(p.images.val) |-> p.images.val[i].src],
     variants |-> [i \in 1..Len(p.variants.val) |->
                     [id |-> p.variants.val[i].id,
                      price |-> p.variants.val[i].price,
                      title |-> p.variants.val[i].title]]]

MapProducts(prods) == [i \in 1..Len(prods) |-> MapProduct(prods[i])]

\* Array.prototype.slice(from, to), zero-based, end exclusive
Slice(s, from, to) ==
    LET stop == IF to < Len(s) THEN to ELSE Len(s)
    IN  IF from >= stop THEN <<>> ELSE SubSeq(s, from + 1, stop)

FeaturedFirstTwo(mapped) == Slice(mapped, 0, 2)

\* mapped.slice(0, 3)
Featured(mapped) == Slice(mapped, 0, 3)

CatchSwallows(e) ==
    /\ thrown' = e
    /\ loading' = FALSE
    /\ pc' = "done"
    /\ UNCHANGED <<products, featured, configError>>

\* catch (e) { console.error(..., e); setConfigError(true) } ; setLoading(false)
Catch(e) ==
    /\ thrown' = e
    /\ configError' = TRUE
    /\ loading' = FALSE
    /\ pc' = "done"
    /\ UNCHANGED <<products, featured>>

\* useEffect(() => { initializeAndLoad() }, []): up to the first await
Mount ==
    /\ pc = "mounted"
    /\ loading' = TRUE
    /\ configFetches' = configFetches + 1
    /\ pc' = "awaitConfig"
    /\ UNCHANGED <<products, featured, configError, client, env, clientWrites,
                   fetchAllCalls, fetched, thrown, checkoutVars, priceVars>>

\* fetch('/api/config/shopify') rejects
ConfigFetchRejects ==
    /\ pc = "awaitConfig"
    /\ Catch("fetch")
    /\ UNCHANGED <<client, env, clientWrites, configFetches, fetchAllCalls, fetched,
                   checkoutVars, priceVars>>

\* fetch('/api/config/shopify') resolves; configRes.json() is awaited
ConfigFetchResolves ==
    /\ pc = "awaitConfig"
    /\ pc' = "awaitJson"
    /\ UNCHANGED <<pageVars, env, clientWrites, configFetches, fetchAllCalls, fetched,
                   thrown, checkoutVars, priceVars>>

\* configRes.json() rejects
JsonRejects ==
    /\ pc = "awaitJson"
    /\ Catch("json")
    /\ UNCHANGED <<client, env, clientWrites, configFetches, fetchAllCalls, fetched,
                   checkoutVars, priceVars>>

ConfigInvalidFallsThrough ==
    /\ pc = "awaitJson"
    /\ ConfigMissing(ShopifyConfig(env))
    /\ configError' = TRUE
    /\ loading' = FALSE
    /\ client' = BuildClient(ShopifyConfig(env))
    /\ clientWrites' = clientWrites + 1
    /\ fetchAllCalls' = fetchAllCalls + 1
    /\ pc' = "awaitProducts"
    /\ UNCHANGED <<products, featured, env, configFetches, fetched, thrown,
                   checkoutVars, priceVars>>

\* the config arrives with an empty field: the early return of App.tsx:44-48
ConfigInvalid ==
    /\ pc = "awaitJson"
    /\ ConfigMissing(ShopifyConfig(env))
    /\ configError' = TRUE
    /\ loading' = FALSE
    /\ pc' = "done"
    /\ UNCHANGED <<products, featured, client, env, clientWrites, configFetches,
                   fetchAllCalls, fetched, thrown, checkoutVars, priceVars>>

\* Client.buildClient throws: `client` is not assigned
BuildThrows ==
    /\ pc = "awaitJson"
    /\ ~ConfigMissing(ShopifyConfig(env))
    /\ Catch("buildClient")
    /\ UNCHANGED <<client, env, clientWrites, configFetches, fetchAllCalls, fetched,
                   checkoutVars, priceVars>>

\* client = Client.buildClient(...); client.product.fetchAll() is awaited
BuildAndFetch ==
    /\ pc = "awaitJson"
    /\ ~ConfigMissing(ShopifyConfig(env))
    /\ client' = BuildClient(ShopifyConfig(env))
    /\ clientWrites' = clientWrites + 1
    /\ fetchAllCalls' = fetchAllCalls + 1
    /\ pc' = "awaitProducts"
    /\ UNCHANGED <<products, featured, loading, configError, env, configFetches,
                   fetched, thrown, checkoutVars, priceVars>>

\* client.product.fetchAll() rejects
FetchAllRejects ==
    /\ pc = "awaitProducts"
    /\ Catch("fetchAll")
    /\ UNCHANGED <<client, env, clientWrites, configFetches, fetchAllCalls, fetched,
                   checkoutVars, priceVars>>

\* client.product.fetchAll() resolves with prods: map, setProducts, setFeatured,
\* setLoading(false); a TypeError of the mapping goes to the catch block
FetchAllResolves(prods) ==
    /\ pc = "awaitProducts"
    /\ fetched' = <<prods>>
    /\ IF MapThrows(prods)
       THEN Catch("map")
       ELSE /\ products' = MapProducts(prods)
            /\ featured' = Featured(MapProducts(prods))
            /\ loading' = FALSE
            /\ pc' = "done"
            /\ UNCHANGED <<configError, thrown>>
    /\ UNCHANGED <<client, env, clientWrites, configFetches, fetchAllCalls,
                   checkoutVars, priceVars>>

\* ------------------------------------------------------------- render
\* if (configError) return the Configuration Error screen (App.tsx:98-107)
ConfigErrorScreen == configError

\* the "Buy Now" buttons on the page (App.tsx:154-182), by index in featured
BuyNowButtons == IF configError \/ loading THEN {} ELSE 1..Len(featured)

\* the "Add to Cart" buttons on the page (App.tsx:193-219), by index in products
AddToCartButtons == IF configError THEN {} ELSE 1..Len(products)

\* data-testid="no-products" is on the page (App.tsx:190-192)
NoProductsShown == ~configError /\ ~loading /\ Len(products) = 0

\* the bootstrapper's three states, as the page shows them
Loading == loading /\ ~configError
Ready == ~loading /\ ~configError
ConfigError == configError

\* ------------------------------------------------------------ formatPrice
Digits == {"0", "1", "5", "9"}
PriceChars == Digits \cup {".", "-", "a"}

\* the argument of formatPrice: undefined, or a string
NoPrice == [defined |-> FALSE, s |-> <<>>]
PriceOf(s) == [defined |-> TRUE, s |-> s]
PriceInputs ==
    {NoPrice} \cup {PriceOf(s) : s \in UNION {[1..n -> PriceChars] : n \in 0..MaxPriceLen}}

DigitVal(c) == CASE c = "0" -> 0 [] c = "1" -> 1 [] c = "5" -> 5 [] c = "9" -> 9
DigitChar(d) ==
    CASE d = 0 -> "0" [] d = 1 -> "1" [] d = 2 -> "2" [] d = 3 -> "3" [] d = 4 -> "4"
      [] d = 5 -> "5" [] d = 6 -> "6" [] d = 7 -> "7" [] d = 8 -> "8" [] d = 9 -> "9"

RECURSIVE Pow10(_)
Pow10(n) == IF n = 0 THEN 1 ELSE 10 * Pow10(n - 1)

\* the length of the longest run of digits of s that starts at position i
RECURSIVE DigitRun(_, _)
DigitRun(s, i) ==
    IF i <= Len(s) /\ s[i] \in Digits THEN 1 + DigitRun(s, i + 1) ELSE 0

RECURSIVE DigitsToNat(_)
DigitsToNat(ds) ==
    IF ds = <<>> THEN 0
    ELSE 10 * DigitsToNat(SubSeq(ds, 1, Len(ds) - 1)) + DigitVal(ds[Len(ds)])

RECURSIVE NatToChars(_)
NatToChars(n) ==
    IF n < 10 THEN <<DigitChar(n)>> ELSE Append(NatToChars(n \div 10), DigitChar(n % 10))

\* a JavaScript number: NaN, or (-1)^neg * mant / 10^scale
NaN == [nan |-> TRUE, neg |-> FALSE, mant |-> 0, scale |-> 0]
Num(neg, mant, scale) == [nan |-> FALSE, neg |-> neg, mant |-> mant, scale |-> scale]

\* parseFloat(s): the longest prefix of s that is a decimal literal (sign, digits,
\* point, digits); NaN when that prefix holds no digit.  The strings of PriceChars
\* hold no white space, exponent or "Infinity".
ParseFloat(s) ==
    LET neg == Len(s) >= 1 /\ s[1] = "-"
        start == IF neg THEN 2 ELSE 1
        nInt == DigitRun(s, start)
        dot == start + nInt
        hasDot == dot <= Len(s) /\ s[dot] = "."
        nFrac == IF hasDot THEN DigitRun(s, dot + 1) ELSE 0
        ds == SubSeq(s, start, start + nInt - 1) \o SubSeq(s, dot + 1, dot + nFrac)
    IN  IF nInt + nFrac = 0 THEN NaN ELSE Num(neg, DigitsToNat(ds), nFrac)

RECURSIVE Pow2Mod25(_)
Pow2Mod25(n) == IF n = 0 THEN 1 ELSE (2 * Pow2Mod25(n - 1)) % 25

\* floor(log2(j / 200)), j >= 1
RECURSIVE Log2Up(_, _)
Log2Up(j, e) == IF 400 * e <= j THEN 1 + Log2Up(j, 2 * e) ELSE 0
RECURSIVE Log2Down(_)
Log2Down(j) == IF j >= 200 THEN 0 ELSE 1 + Log2Down(2 * j)
Log2Of200th(j) == IF j >= 200 THEN Log2Up(j, 1) ELSE 0 - Log2Down(j)

\* Is the double nearest to j/200 (j odd) at or above j/200?  The double is
\* round(j * 2^(49-e) / 25) / 2^(52-e) with e = floor(log2(j/200)); it is exact
\* when 25 divides j, and otherwise lies above iff the remainder exceeds 25/2.
DoubleNotBelow(j) ==
    \/ j % 25 = 0
    \/ ((j % 25) * Pow2Mod25(49 - Log2Of200th(j))) % 25 >= 13

\* the integer n of Number.prototype.toFixed(2) for |x| = mant / 10^scale: n / 100
\* nearest to the double x, the larger n on a tie
Cents(mant, scale) ==
    IF scale <= 2 THEN mant * Pow10(2 - scale)
    ELSE LET unit == Pow10(scale - 2)
             q == mant \div unit
             r == mant % unit
         IN  IF 2 * r < unit THEN q
             ELSE IF 2 * r > unit THEN q + 1
             ELSE IF DoubleNotBelow(2 * q + 1) THEN q + 1 ELSE q

\* n.toFixed(2)
ToFixed2(n) ==
    IF n.nan THEN <<"N", "a", "N">>
    ELSE LET c == Cents(n.mant, n.scale)
             frac == <<DigitChar((c % 100) \div 10), DigitChar(c % 10)>>
         IN  (IF n.neg /\ n.mant > 0 THEN <<"-">> ELSE <<>>)
                 \o NatToChars(c \div 100) \o <<".">> \o frac

\* String(amount || 0)
AmountOrZero(amount) ==
    IF amount.defined /\ Truthy(amount.s) THEN amount.s ELSE <<"0">>

\* formatPrice(amount) (App.tsx:10-13)
formatPrice(amount) == <<"$">> \o ToFixed2(ParseFloat(AmountOrZero(amount)))

\* {formatPrice(p.variants[0]?.price.amount)}
PriceShown(p) ==
    formatPrice(IF Len(p.variants) = 0 THEN NoPrice
                ELSE PriceOf(p.variants[1].price.amount))

\* one call of formatPrice
FormatPrice ==
    /\ priceOut = <<>>
    /\ priceOut' = <<formatPrice(priceIn)>>
    /\ UNCHANGED <<priceIn, pageVars, bootVars, checkoutVars>>

\* ---------------------------------------------------- Checkout Initiator
VariantIds == {11, 12}

\* the hosted payment page of session s, as the platform returns it in webUrl
WebUrl(s) == <<"checkout", s>>

NotInitialized == "Shopify client not initialized"
CouldNotStart == "Could not start checkout. Check console for details."

ClientAbsentInverted(c) == c # NULL

ClientAbsentNever(c) == FALSE

\* !client
ClientAbsent(c) == c = NULL

\* [{ variantId, quantity: qty }]
LineItemsToAdd(variantId, qty) == <<[variantId |-> variantId, quantity |-> qty]>>

\* one invocation of startCheckout, as it starts
NewCall(variantId, qty, via) ==
    [variantId |-> variantId, quantity |-> qty, via |-> via,
     clientAbsent |-> client = NULL,
     pc |-> "start", outcome |-> "pending",
     creates |-> 0, adds |-> <<>>, session |-> 0, url |-> <<>>,
     rejectedAt |-> "none", navigatedTo |-> <<>>, alerts |-> <<>>, logged |-> 0]

\* if (!client) { alert(...); return }
NotReady(c) ==
    [c EXCEPT !.pc = "done", !.outcome = "notReady",
              !.alerts = Append(@, NotInitialized)]

\* client.checkout.create() is called and awaited
CallCreate(c) == [c EXCEPT !.pc = "awaitCreate", !.creates = @ + 1]

\* startCheckout(variantId, qty) up to its first await
startCheckout(variantId, qty, via) ==
    /\ calls' = Append(calls,
                       IF ClientAbsent(client)
                       THEN NotReady(NewCall(variantId, qty, via))
                       ELSE CallCreate(NewCall(variantId, qty, via)))
    /\ UNCHANGED <<sessions, href>>

AddToOldestSession(c, checkoutId) ==
    [c EXCEPT !.pc = "awaitAdd", !.session = checkoutId,
              !.adds = Append(@, [session |-> 1,
                                  items |-> LineItemsToAdd(c.variantId, c.quantity)])]

\* checkout = (resolved); client.checkout.addLineItems(checkout.id, lineItemsToAdd)
CallAddLineItems(c, checkoutId) ==
    [c EXCEPT !.pc = "awaitAdd", !.session = checkoutId,
              !.adds = Append(@, [session |-> checkoutId,
                                  items |-> LineItemsToAdd(c.variantId, c.quantity)])]

\* window.location.href = updated.webUrl
Navigate(c, webUrl) ==
    [c EXCEPT !.pc = "done", !.outcome = "navigated", !.url = webUrl,
              !.navigatedTo = webUrl]

CheckoutCatchSilent(c) ==
    [c EXCEPT !.pc = "done", !.outcome = "failed", !.logged = @ + 1]

\* catch (e) { console.error(e); alert("Could not start checkout...") }
CheckoutCatch(c) ==
    [c EXCEPT !.pc = "done", !.outcome = "failed", !.logged = @ + 1,
              !.alerts = Append(@, CouldNotStart)]

\* client.checkout.create() of invocation i resolves with a new session
CreateResolves(i) ==
    /\ i \in 1..Len(calls)
    /\ calls[i].pc = "awaitCreate"
    /\ sessions' = Append(sessions, i)
    /\ calls' = [calls EXCEPT ![i] = CallAddLineItems(@, Len(sessions) + 1)]
    /\ UNCHANGED <<pageVars, bootVars, href, uncaught, priceVars>>

\* the platform rejects the pending request `at` of invocation c
Rejected(c, at) == [c EXCEPT !.rejectedAt = at]

\* client.checkout.create() of invocation i rejects
CreateRejects(i) ==
    /\ i \in 1..Len(calls)
    /\ calls[i].pc = "awaitCreate"
    /\ calls' = [calls EXCEPT ![i] = CheckoutCatch(Rejected(@, "create"))]
    /\ UNCHANGED <<pageVars, bootVars, sessions, href, uncaught, priceVars>>

\* client.checkout.addLineItems of invocation i resolves; the platform answers
\* with the session the request named
AddResolves(i) ==
    /\ i \in 1..Len(calls)
    /\ calls[i].pc = "awaitAdd"
    /\ LET webUrl == WebUrl(calls[i].adds[Len(calls[i].adds)].session)
       IN  /\ calls' = [calls EXCEPT ![i] = Navigate(@, webUrl)]
           /\ href' = calls'[i].navigatedTo
    /\ UNCHANGED <<pageVars, bootVars, sessions, uncaught, priceVars>>

\* client.checkout.addLineItems of invocation i rejects
AddRejects(i) ==
    /\ i \in 1..Len(calls)
    /\ calls[i].pc = "awaitAdd"
    /\ calls' = [calls EXCEPT ![i] = CheckoutCatch(Rejected(@, "add"))]
    /\ UNCHANGED <<pageVars, bootVars, sessions, href, uncaught, priceVars>>

\* onClick={() => startCheckout(p.variants[0].id)}: p.variants[0] is undefined
\* for a product without variants, and reading .id of it throws in the handler
OnClick(p) ==
    /\ Len(calls) + uncaught < MaxClicks
    /\ IF Len(p.variants) = 0
       THEN /\ uncaught' = uncaught + 1
            /\ UNCHANGED <<calls, sessions, href>>
       ELSE /\ startCheckout(p.variants[1].id, 1, "ui")
            /\ UNCHANGED uncaught
    /\ UNCHANGED <<pageVars, bootVars, priceVars>>

\* the user clicks the "Buy Now" button of featured[i]
ClickBuyNow(i) ==
    /\ i \in BuyNowButtons
    /\ OnClick(featured[i])

\* the user clicks the "Add to Cart" button of products[i]
ClickAddToCart(i) ==
    /\ i \in AddToCartButtons
    /\ OnClick(products[i])

\* startCheckout called as a component, whatever the page shows
Invoke(variantId, qty) ==
    /\ Len(calls) + uncaught < MaxClicks
    /\ startCheckout(variantId, qty, "direct")
    /\ UNCHANGED <<pageVars, bootVars, uncaught, priceVars>>

\* ---------------------------------------------------------- specifications
\* the page after the first render, before the effect runs
Init ==
    /\ env \in [SHOPIFY_STORE_DOMAIN : DomainVars,
                SHOPIFY_STOREFRONT_ACCESS_TOKEN : TokenVars]
    /\ pc = "mounted"
    /\ client = NULL
    /\ clientWrites = 0
    /\ products = <<>>
    /\ featured = <<>>
    /\ loading = TRUE
    /\ configError = FALSE
    /\ configFetches = 0
    /\ fetchAllCalls = 0
    /\ fetched = <<>>
    /\ thrown = "none"
    /\ calls = <<>>
    /\ sessions = <<>>
    /\ href = <<>>
    /\ uncaught = 0
    /\ priceIn = NoPrice
    /\ priceOut = <<>>

\* initializeAndLoad, with the platform answering fetchAll from `catalogs`
Bootstrap(catalogs) ==
    \/ Mount
    \/ ConfigFetchRejects
    \/ ConfigFetchResolves
    \/ JsonRejects
    \/ ConfigInvalid
    \/ BuildThrows
    \/ BuildAndFetch
    \/ FetchAllRejects
    \/ \E prods \in catalogs : FetchAllResolves(prods)

\* the platform answers the pending request of one invocation
Platform ==
    \/ \E i \in 1..MaxClicks : CreateResolves(i)
    \/ \E i \in 1..MaxClicks : CreateRejects(i)
    \/ \E i \in 1..MaxClicks : AddResolves(i)
    \/ \E i \in 1..MaxClicks : AddRejects(i)

\* the page session: the bootstrapper, the user's clicks, the platform's answers
Next ==
    \/ Bootstrap(Catalogs)
    \/ \E i \in 1..MaxProducts : ClickBuyNow(i)
    \/ \E i \in 1..MaxProducts : ClickAddToCart(i)
    \/ Platform

Spec == Init /\ [][Next]_vars

\* the catalogs of the platform mock the component is exercised against
MockCatalogs == {<<>>, <<Hoodie>>}

\* the Checkout Initiator exercised as a component: any arguments, at any time
\* of the page session
NextInitiator ==
    \/ Bootstrap(MockCatalogs)
    \/ \E v \in VariantIds, q \in 1..MaxQty : Invoke(v, q)
    \/ Platform

SpecInitiator == Init /\ [][NextInitiator]_vars

\* formatPrice applied to one amount
InitPrice ==
    /\ env = [SHOPIFY_STORE_DOMAIN |-> Unset, SHOPIFY_STOREFRONT_ACCESS_TOKEN |-> Unset]
    /\ pc = "mounted"
    /\ client = NULL
    /\ clientWrites = 0
    /\ products = <<>>
    /\ featured = <<>>
    /\ loading = TRUE
    /\ configError = FALSE
    /\ configFetches = 0
    /\ fetchAllCalls = 0
    /\ fetched = <<>>
    /\ thrown = "none"
    /\ calls = <<>>
    /\ sessions = <<>>
    /\ href = <<>>
    /\ uncaught = 0
    /\ priceIn \in PriceInputs
    /\ priceOut = <<>>

NextPrice == FormatPrice

SpecPrice == InitPrice /\ [][NextPrice]_vars

\* ------------------------------------------------------------------ claims
Config == ShopifyConfig(env)
Call(i) == calls[i]
Invocations == 1..Len(calls)

\* C1: whenever the Config Provider's document has an empty domain or an empty
\* access token (both are empty when the environment variables are unset), no
\* ClientHandle is ever constructed, no catalog fetch is ever attempted, and the
\* finished bootstrapper run is in ConfigError.
C1_EmptyConfigEndsInConfigError ==
    (Config.domain = <<>> \/ Config.storefrontAccessToken = <<>>) =>
        /\ client = NULL
        /\ clientWrites = 0
        /\ fetchAllCalls = 0
        /\ pc # "awaitProducts"
        /\ (pc = "done" => ConfigError /\ ~loading)

\* a run with a domain but no token has come through validation to its end
C1_Witness ==
    /\ pc = "done"
    /\ thrown = "none"
    /\ Config.domain # <<>>
    /\ Config.storefrontAccessToken = <<>>
    /\ ConfigError

\* C2: every invocation made with a ClientHandle present makes exactly one
\* session-create call and at most one line-item-add call; its add call carries
\* its own variantId and quantity and targets the session its own create call
\* returned; it navigates only to the URL its own add call returned; and the
\* platform holds one session per resolved create call, none shared.
C2_OneSessionPerInvocation ==
    /\ \A i \in Invocations :
        ~Call(i).clientAbsent =>
            /\ Call(i).creates = 1
            /\ Len(Call(i).adds) <= 1
            /\ (Call(i).pc = "awaitCreate" => Call(i).session = 0 /\ Call(i).adds = <<>>)
            /\ (Call(i).session # 0 =>
                    /\ Call(i).session \in 1..Len(sessions)
                    /\ sessions[Call(i).session] = i)
            /\ (Call(i).adds # <<>> =>
                    /\ Call(i).session # 0
                    /\ Call(i).adds[1] =
                         [session |-> Call(i).session,
                          items |-> <<[variantId |-> Call(i).variantId,
                                       quantity |-> Call(i).quantity]>>])
            /\ (Call(i).pc = "done" /\ Call(i).rejectedAt = "none" =>
                    /\ Len(Call(i).adds) = 1
                    /\ Call(i).url = WebUrl(Call(i).session)
                    /\ Call(i).navigatedTo = Call(i).url)
            /\ (Call(i).navigatedTo # <<>> =>
                    Call(i).pc = "done" /\ Call(i).rejectedAt = "none")
    /\ \A s \in 1..Len(sessions) :
        /\ sessions[s] \in Invocations
        /\ Call(sessions[s]).session = s
    /\ href \in {<<>>} \cup {Call(i).navigatedTo : i \in Invocations}

\* two invocations raced: the later one got the earlier session, both navigated,
\* and one of them carried a quantity other than the default
C2_Witness ==
    \E i, j \in Invocations :
        /\ i < j
        /\ Call(i).session > Call(j).session
        /\ Call(j).session > 0
        /\ Call(i).navigatedTo = WebUrl(Call(i).session)
        /\ Call(j).navigatedTo = WebUrl(Call(j).session)
        /\ Call(i).quantity # 1
        /\ Call(i).variantId # Call(j).variantId

C3_FailedInvocation(c) ==
    /\ c.pc = "done"
    /\ c.outcome = "failed"
    /\ c.navigatedTo = <<>>
    /\ c.alerts = <<CouldNotStart>>
    /\ c.creates = 1
    /\ (c.rejectedAt = "create" => c.adds = <<>> /\ c.session = 0)
    /\ (c.rejectedAt = "add" => Len(c.adds) = 1)

\* C3: an invocation whose session-create or line-item-add call was rejected
\* has not navigated, has raised exactly one notification, has made no further
\* call (none at all after a rejected create), and never acts again; the step
\* that handles the rejection leaves products, featured, loading, configError,
\* the ClientHandle and the location unchanged.
C3_RejectionOnlyNotifies ==
    /\ [](\A i \in Invocations :
            Call(i).rejectedAt # "none" => C3_FailedInvocation(Call(i)))
    /\ [][\A i \in Invocations :
            /\ (Call(i).rejectedAt = "none" /\ calls'[i].rejectedAt # "none" =>
                    UNCHANGED <<pageVars, href, sessions>>)
            /\ (Call(i).rejectedAt # "none" => calls'[i] = Call(i))]_vars

\* one invocation failed at session-create and another at line-item-add
C3_Witness ==
    \E i, j \in Invocations :
        /\ Call(i).rejectedAt = "create"
        /\ Call(j).rejectedAt = "add"
        /\ Call(i).pc = "done"
        /\ Call(j).pc = "done"

\* C4: an invocation made while the ClientHandle is null is finished in the step
\* that made it (it is never pending), with the "not initialized" notification
\* raised, and with no session-create call, no line-item-add call, no session
\* on the platform and no navigation.
C4_AbsentClientNotifiesWithoutCalls ==
    \A i \in Invocations :
        Call(i).clientAbsent =>
            /\ Call(i).pc = "done"
            /\ Call(i).outcome = "notReady"
            /\ Call(i).alerts = <<NotInitialized>>
            /\ Call(i).creates = 0
            /\ Call(i).adds = <<>>
            /\ Call(i).session = 0
            /\ Call(i).navigatedTo = <<>>
            /\ \A s \in 1..Len(sessions) : sessions[s] # i

\* an invocation was made before the ClientHandle existed, and the handle has
\* been constructed since
C4_Witness ==
    /\ client # NULL
    /\ \E i \in Invocations : Call(i).clientAbsent /\ Call(i).pc = "done"

Min(a, b) == IF a < b THEN a ELSE b
Returned == fetched[1]
WellFormed(raw) == \A i \in 1..Len(raw) : raw[i].images.present /\ raw[i].variants.present

\* what the page shows of a finished run for the fetched records raw: Ready, the
\* whole catalog in returned order, its first min(N,3) entries as featured, and
\* the "no products" indicator exactly when N = 0
C5_ReadyWith(raw) ==
    /\ Ready
    /\ Len(products) = Len(raw)
    /\ \A i \in 1..Len(raw) :
        /\ products[i].id = raw[i].id
        /\ products[i] = MapProduct(raw[i])
    /\ Len(featured) = Min(Len(raw), 3)
    /\ \A i \in 1..Len(featured) : featured[i] = products[i]
    /\ (Len(raw) = 0 => NoProductsShown)
    /\ (Len(raw) > 0 => ~NoProductsShown)

\* C5 as stated: every run whose catalog fetch resolved ends in Ready with the
\* catalog and featured subsets of the returned records.
C5_EveryFetchEndsReady ==
    pc = "done" /\ fetched # <<>> => C5_ReadyWith(Returned)

\* C5, amended: every run whose catalog fetch resolved with records that all
\* carry their images and variants sequences ends in Ready with all N products in
\* returned order, the first min(N,3) of them featured, and the "no products"
\* indicator when N = 0.
C5_MappableFetchEndsReady ==
    pc = "done" /\ fetched # <<>> /\ WellFormed(Returned) => C5_ReadyWith(Returned)

\* a run ended Ready with more than three products, three of them featured
C5_Witness ==
    /\ pc = "done"
    /\ fetched # <<>>
    /\ WellFormed(Returned)
    /\ Len(Returned) > 3
    /\ Len(products) > 3
    /\ Len(featured) = 3

\* C6: a run in which the config retrieval, the catalog fetch or the mapping
\* threw is finished, in ConfigError, with loading over; and ConfigError is
\* terminal: no step leaves it, resumes loading, or sends another config or
\* catalog request.
C6_ThrowEndsInTerminalConfigError ==
    /\ [](thrown # "none" => pc = "done" /\ ConfigError /\ ~loading /\ ~Ready)
    /\ [][ConfigError =>
            /\ ConfigError'
            /\ ~loading'
            /\ pc' = "done"
            /\ configFetches' = configFetches
            /\ fetchAllCalls' = fetchAllCalls]_vars

\* the mapping of a resolved catalog threw and the run is over
C6_Witness ==
    /\ thrown = "map"
    /\ fetched # <<>>
    /\ pc = "done"
    /\ ConfigError

\* C8 as stated: the ClientHandle is written exactly once, only in a run that
\* ends in Ready; every run that ends in ConfigError leaves it null.
C8_HandleOnlyInReadyRuns ==
    /\ clientWrites <= 1
    /\ (client = NULL <=> clientWrites = 0)
    /\ (pc = "done" /\ ConfigError => client = NULL)
    /\ (pc = "done" /\ Ready => client # NULL /\ clientWrites = 1)

\* C8, amended: the ClientHandle is null until the configuration has been
\* validated; it is written at most once, by the bootstrapper, in the step that
\* follows a successful validation, and never by another step; a run that ends
\* in ConfigError before construction (empty config, config retrieval or
\* construction threw) leaves it null, a run that ends in Ready has written it
\* once, and a run whose catalog fetch or mapping fails ends in ConfigError with
\* the handle still set.
C8_HandleWrittenOnceAfterValidation ==
    /\ [](/\ clientWrites <= 1
          /\ (client = NULL <=> clientWrites = 0)
          /\ (pc \in {"mounted", "awaitConfig", "awaitJson"} => client = NULL)
          /\ (client # NULL =>
                Config.domain # <<>> /\ Config.storefrontAccessToken # <<>>)
          /\ (pc = "done" /\ thrown \in {"fetch", "json", "buildClient"} =>
                client = NULL)
          /\ (pc = "done" /\ thrown = "none" /\ ConfigError => client = NULL)
          /\ (pc = "done" /\ Ready => client # NULL)
          /\ (pc = "done" /\ thrown \in {"fetchAll", "map"} =>
                client # NULL /\ ConfigError))
    /\ [][client' # client =>
            /\ client = NULL
            /\ pc = "awaitJson"
            /\ pc' = "awaitProducts"
            /\ calls' = calls]_vars

\* the catalog fetch rejected: ConfigError, with the handle constructed
C8_Witness ==
    /\ pc = "done"
    /\ thrown = "fetchAll"
    /\ ConfigError
    /\ client # NULL
    /\ clientWrites = 1

SchemeMark == <<":", "/", "/">>

\* s without its URL scheme prefix ("<scheme>://"), whatever the scheme
WithoutScheme(s) ==
    LET i == IndexOf(s, SchemeMark)
    IN  IF i > 1 THEN SubSeq(s, i + Len(SchemeMark), Len(s)) ELSE s

\* C9: the constructed ClientHandle got the configured domain without its URL
\* scheme prefix, whatever the scheme, and the access token unchanged.
C9_AnySchemeStripped ==
    client # NULL =>
        /\ client.domain = WithoutScheme(Config.domain)
        /\ client.storefrontAccessToken = Config.storefrontAccessToken

\* C10: whenever a "Buy Now" or "Add to Cart" button is on the page, the page
\* is Ready, the catalog fetch has resolved with at least one product and the
\* ClientHandle is set; no invocation made by a click found the handle absent;
\* and in Loading and in ConfigError no click has been handled at all.
C10_ButtonsOnlyWhenReadyWithClient ==
    /\ (BuyNowButtons # {} \/ AddToCartButtons # {} =>
            /\ ~configError
            /\ Ready
            /\ fetched # <<>>
            /\ Len(Returned) >= 1
            /\ client # NULL)
    /\ \A i \in Invocations :
        Call(i).via = "ui" => ~Call(i).clientAbsent /\ Call(i).outcome # "notReady"
    /\ (Loading \/ ConfigError => calls = <<>> /\ uncaught = 0)

\* both kinds of button are on the page and a click has started a checkout
C10_Witness ==
    /\ BuyNowButtons # {}
    /\ AddToCartButtons # {}
    /\ \E i \in Invocations : Call(i).via = "ui" /\ Call(i).creates = 1

Dollar(text) == <<"$">> \o text
ZeroPrice == Dollar(<<"0", ".", "0", "0">>)

\* C7: formatPrice displays "$0.00" for an amount that is missing, "0", or a
\* string that is no number, and "$19.50" for "19.5".
C7_FormatPriceFallsBackToZero ==
    priceOut # <<>> =>
        /\ (~priceIn.defined => priceOut[1] = ZeroPrice)
        /\ (priceIn = PriceOf(<<"0">>) => priceOut[1] = ZeroPrice)
        /\ (priceIn.defined /\ ParseFloat(priceIn.s).nan => priceOut[1] = ZeroPrice)
        /\ (priceIn = PriceOf(Amount195) =>
                priceOut[1] = Dollar(<<"1", "9", ".", "5", "0">>))

====
